---- MODULE Spec2Model ----
(***************************************************************************)
(* Model of the Telegram air-quality bot: the command handlers of bot.py   *)
(* (weather_handler, weather_weekly_plot_command, cat_command) and the     *)
(* retrieval functions of open_meteo.py (geocoding_search_city,            *)
(* scrape_weather_data, scrape_historic_weather_data).                     *)
(*                                                                         *)
(* Handlers are coroutines scheduled on one event loop, one task per       *)
(* inbound message, several of which may be in flight at once: a handler   *)
(* holds the loop from the moment it is started or resumed until it        *)
(* reaches an `await` or ends.  The retrieval functions are plain          *)
(* (blocking) calls, so the loop stays held while they wait for their      *)
(* HTTP response; the gateway accepts every text reply, a photo upload     *)
(* may fail.  Message texts are sequences of one-character strings.        *)
(***************************************************************************)
EXTENDS Integers, Sequences, FiniteSets, TLC

VARIABLES
    pc,               \* position of each handler task
    text,             \* update.message.text of the task's message
    callback,         \* the handler the application chose for the message
    args,             \* context.args of the task's message
    city_name,        \* the handler's local city_name
    city_data,        \* the handler's local city_data
    weather_data,     \* the handler's local weather_data
    hourly,           \* the hourly response scrape_historic_weather_data holds
    plot_image_path,  \* the handler's local plot_image_path, Unbound until assigned
    cat_image_path,   \* the handler's local cat_image_path, Unbound until assigned
    exc,              \* the exception the handler's except clause caught
    geo_result,       \* what the geocoding endpoint answered the task's request
    upload,           \* the photo the gateway is sending for the task
    replies,          \* replies delivered for the task's message
    outcome,          \* how the handler ended: "returned" or "raised"
    plot_file,        \* the file at historic_weather_plot.png
    cat_files,        \* whether the task's cat image file exists
    running,          \* the task holding the event loop, 0 when it is free
    attempts,         \* HTTP attempts of the retrying session in the current call
    cache,            \* the requests_cache store
    now,              \* the clock, in seconds
    calls,            \* requests issued for the task's message
    fetchLog,         \* per coordinates, the latest scrape_weather_data calls
    hourly_times,     \* Time(), TimeEnd() and Interval() of the hourly response
    date              \* weather_hourly["date"], the time axis of the plot

vars == <<pc, text, callback, args, city_name, city_data, weather_data, hourly,
          plot_image_path, cat_image_path, exc, geo_result, upload, replies, outcome,
          plot_file, cat_files, running, attempts, cache, now, calls, fetchLog,
          hourly_times, date>>

(***************************************************************************)
(* Bounds                                                                  *)
(***************************************************************************)
NumTasks == 2
MaxClock == 2

Tasks == 1..NumTasks

(***************************************************************************)
(* Strings                                                                 *)
(***************************************************************************)
S_current == <<"/", "c", "u", "r", "r", "e", "n", "t">>
S_CURRENT == <<"/", "C", "U", "R", "R", "E", "N", "T">>
S_weekly == <<"/", "w", "e", "e", "k", "l", "y">>
S_cat == <<"/", "c", "a", "t">>
S_atbot == <<"@", "a", "q", "b", "o", "t">>
S_Oslo == <<"O", "s", "l", "o">>
S_Rome == <<"R", "o", "m", "e">>
S_Ys == <<"Y", "s">>
SP == <<" ">>

bot_username == <<"a", "q", "b", "o", "t">>

\* str.lower() on the letters the message alphabet contains
lower_char(c) ==
    CASE c = "C" -> "c" [] c = "U" -> "u" [] c = "R" -> "r" [] c = "E" -> "e"
      [] c = "N" -> "n" [] c = "T" -> "t" [] c = "O" -> "o"
      [] OTHER -> c

lower(s) == [i \in 1..Len(s) |-> lower_char(s[i])]

\* str.strip(): drop leading and trailing whitespace
RECURSIVE lstrip(_)
lstrip(s) == IF s # <<>> /\ Head(s) = " " THEN lstrip(Tail(s)) ELSE s

RECURSIVE rstrip(_)
rstrip(s) ==
    IF s # <<>> /\ s[Len(s)] = " " THEN rstrip(SubSeq(s, 1, Len(s) - 1)) ELSE s

strip(s) == rstrip(lstrip(s))

\* s.startswith(p)
startswith(s, p) == Len(s) >= Len(p) /\ SubSeq(s, 1, Len(p)) = p

\* str.replace(old, ""): delete every occurrence of old, left to right
RECURSIVE replace_del(_, _)
replace_del(s, old) ==
    IF s = <<>> THEN <<>>
    ELSE IF startswith(s, old)
         THEN replace_del(SubSeq(s, Len(old) + 1, Len(s)), old)
         ELSE <<Head(s)>> \o replace_del(Tail(s), old)

\* index of the first whitespace of s, Len(s)+1 when there is none
RECURSIVE first_space(_, _)
first_space(s, i) ==
    IF i > Len(s) \/ s[i] = " " THEN i ELSE first_space(s, i + 1)

\* str.split(): the whitespace-separated words of s
RECURSIVE split(_)
split(s) ==
    LET t == lstrip(s) IN
    IF t = <<>> THEN <<>>
    ELSE LET k == first_space(t, 1) IN
         <<SubSeq(t, 1, k - 1)>> \o split(SubSeq(t, k, Len(t)))

\* " ".join(words)
RECURSIVE join(_)
join(words) ==
    IF words = <<>> THEN <<>>
    ELSE IF Len(words) = 1 THEN words[1]
    ELSE words[1] \o SP \o join(Tail(words))

\* index of the first "@" of s, Len(s)+1 when there is none
RECURSIVE first_at(_, _)
first_at(s, i) ==
    IF i > Len(s) \/ s[i] = "@" THEN i ELSE first_at(s, i + 1)

(***************************************************************************)
(* Inbound messages                                                        *)
(***************************************************************************)
CurrentMessages ==
    { S_current,
      S_current \o SP \o S_Oslo,
      S_current \o SP \o SP,
      S_current \o S_atbot,
      S_CURRENT,
      S_Oslo,
      SP \o S_Rome \o SP,
      S_Rome \o SP \o S_current }

WeeklyMessages ==
    { S_weekly,
      S_weekly \o SP \o S_Oslo,
      S_weekly \o SP \o S_Rome,
      S_weekly \o SP \o S_Ys }

CatMessages == { S_cat }

Messages == CurrentMessages \cup WeeklyMessages \cup CatMessages

\* the handlers registered in main()
CommandNames == { Tail(S_current), Tail(S_weekly), Tail(S_cat) }

\* filters.COMMAND: the text opens with a bot command
is_command(t) == t # <<>> /\ Head(t) = "/" /\ Len(t) > 1 /\ t[2] # " "

\* the command word of a command message, without the slash: "current@aqbot"
command_word(t) == SubSeq(t, 2, first_space(t, 1) - 1)

\* CommandHandler matching: the name before "@" is compared in lower case
\* with the registered command, the part after "@" with the bot's username
command_name(t) ==
    LET w == command_word(t) IN lower(SubSeq(w, 1, first_at(w, 1) - 1))

command_addressee_ok(t) ==
    LET w == command_word(t)
        k == first_at(w, 1)
    IN k > Len(w) \/ lower(SubSeq(w, k + 1, Len(w))) = bot_username

\* the handler main() routes a message to, "none" when no handler takes it
route(t) ==
    IF is_command(t)
    THEN IF command_name(t) \in CommandNames /\ command_addressee_ok(t)
         THEN CASE command_name(t) = Tail(S_current) -> "weather_handler"
                [] command_name(t) = Tail(S_weekly) -> "weather_weekly_plot_command"
                [] OTHER -> "cat_command"
         ELSE "none"
    ELSE "weather_handler"

\* faulty variant: the command word is left among the arguments
context_args_with_command(t) == IF is_command(t) THEN split(t) ELSE <<>>

\* context.args: the words after the command; None (empty here, both are
\* falsy) for a message taken by the MessageHandler
context_args(t) == IF is_command(t) THEN Tail(split(t)) ELSE <<>>

(***************************************************************************)
(* Data                                                                    *)
(***************************************************************************)
\* CachedSession(".cache", expire_after=3600)
expire_after == 3600
\* retry(cache_session, retries=5, backoff_factor=0.2)
retries == 5

Unbound == "<unbound>"
PlotPath == "historic_weather_plot.png"
CatPath == "<cat image>"

\* the places the geocoding service knows
Oslo == [latitude |-> 60, longitude |-> 11]
Rome == [latitude |-> 42, longitude |-> 12]
Coords == {Oslo, Rome}

NoData == [found |-> FALSE, latitude |-> 0, longitude |-> 0]
NoWeather == [set |-> FALSE, latitude |-> 0, longitude |-> 0, current_pm10 |-> 0,
              current_pm2_5 |-> 0, current_carbon_monoxide |-> 0,
              current_nitrogen_dioxide |-> 0]
NoFile == [exists |-> FALSE, owner |-> 0, latitude |-> 0, longitude |-> 0,
           values |-> <<>>]
NoCalls == [geo |-> 0, fetch |-> 0, image |-> 0]
NoCall == [valid |-> FALSE, t |-> 0, body |-> <<>>, fetched |-> FALSE]
NoLog == [prev |-> NoCall, last |-> NoCall, fill |-> NoCall]
NoEntry == [present |-> FALSE, created |-> 0, body |-> <<>>]

\* values the air-quality service may report, in the order of the request's
\* variable list
Bodies == { <<5, 3, 200, 12>>, <<12, 7, 210, 18>> }

\* the hourly arrays the service may report, one value per variable here
Series == { <<9, 4, 190, 15>> }

\* the bodies the service may answer a request of each kind with
ServiceBodies(kind) == IF kind = "current" THEN Bodies ELSE Series

CacheKeys == [latitude : {60, 42}, longitude : {11, 12}, kind : {"current", "hourly"}]

\* what the geocoding endpoint may answer for a name: the matching place, a
\* body without "results", a body with an empty "results", or no answer
GeoService(city) ==
    (IF city = S_Oslo THEN {[kind |-> "results", place |-> Oslo]}
     ELSE IF city = S_Rome THEN {[kind |-> "results", place |-> Rome]}
     ELSE {[kind |-> "no_key", place |-> Oslo], [kind |-> "empty_list", place |-> Oslo]})
    \cup {[kind |-> "transport_error", place |-> Oslo]}

\* faulty variant: a lookup without a result falls back to a default place
geocoding_search_city_default(resp) ==
    IF resp.kind = "results"
    THEN [raised |-> "", value |-> [found |-> TRUE,
                                    latitude |-> resp.place.latitude,
                                    longitude |-> resp.place.longitude]]
    ELSE [raised |-> "", value |-> [found |-> TRUE, latitude |-> 60, longitude |-> 11]]

\* geocoding_search_city: response.json().get("results")[0]
geocoding_search_city(resp) ==
    CASE resp.kind = "results" ->
            [raised |-> "", value |-> [found |-> TRUE,
                                       latitude |-> resp.place.latitude,
                                       longitude |-> resp.place.longitude]]
      [] resp.kind = "no_key" -> [raised |-> "TypeError", value |-> NoData]
      [] resp.kind = "empty_list" -> [raised |-> "IndexError", value |-> NoData]
      [] OTHER -> [raised |-> "TransportError", value |-> NoData]

\* params["current"]: the variables in the order they are requested, which
\* is the order of the response's slots
current_variables == <<"pm10", "pm2_5", "carbon_monoxide", "nitrogen_dioxide">>

\* faulty variant: slots 0 and 1 are read the wrong way round
weather_conditions_swapped(lat, lon, body) ==
    [set |-> TRUE, latitude |-> lat, longitude |-> lon,
     current_pm10 |-> body[2], current_pm2_5 |-> body[1],
     current_carbon_monoxide |-> body[3], current_nitrogen_dioxide |-> body[4]]

\* scrape_weather_data: the reading built from the response's variable slots
weather_conditions(lat, lon, body) ==
    [set |-> TRUE, latitude |-> lat, longitude |-> lon,
     current_pm10 |-> body[1], current_pm2_5 |-> body[2],
     current_carbon_monoxide |-> body[3], current_nitrogen_dioxide |-> body[4]]

\* the handler a task runs
handler(h) == callback[h]

\* weather_handler: the city name taken from the arguments or the text
current_city_name(a, t) ==
    IF a # <<>> THEN strip(join(a)) ELSE strip(replace_del(t, S_current))

\* weather_weekly_plot_command: the city name taken from the arguments
weekly_city_name(a) == strip(join(a))

\* the request signature the cache is keyed by
cache_key(h) ==
    [latitude |-> city_data[h].latitude, longitude |-> city_data[h].longitude,
     kind |-> IF handler(h) = "weather_handler" THEN "current" ELSE "hourly"]

\* faulty variant: the cache never serves a stored response
is_fresh_never(entry, t) == FALSE

\* a cached response is served while it is younger than expire_after
is_fresh(entry, t) == entry.present /\ t - entry.created < expire_after

(***************************************************************************)
(* Replies                                                                 *)
(***************************************************************************)
ValidationCurrent ==
    [kind |-> "text",
     body |-> "An error occurred. Please provide a valid city name after the /current command."]
ValidationWeekly ==
    [kind |-> "text",
     body |-> "An error occurred. Please provide a valid city name after the /weekly command."]
ErrorCurrent ==
    [kind |-> "text", body |-> "An error occurred while retrieving weather data."]
ErrorWeekly ==
    [kind |-> "text",
     body |-> "An error occured while retrieving historic weather data"]
CatNotice == [kind |-> "text", body |-> "Fetching image, it may take a while"]
CatSorry ==
    [kind |-> "text", body |-> "Sorry, I can't get you a pic of a cat this time"]

\* faulty variant: latitude and longitude change places
structured_reply_swapped(h) ==
    [kind |-> "structured", city |-> city_name[h],
     latitude |-> city_data[h].longitude, longitude |-> city_data[h].latitude,
     pm10 |-> weather_data[h].current_pm10,
     pm2_5 |-> weather_data[h].current_pm2_5,
     carbon_monoxide |-> weather_data[h].current_carbon_monoxide,
     nitrogen_dioxide |-> weather_data[h].current_nitrogen_dioxide]

\* weather_handler lines 82-92: the text of the success reply
structured_reply(h) ==
    [kind |-> "structured", city |-> city_name[h],
     latitude |-> city_data[h].latitude, longitude |-> city_data[h].longitude,
     pm10 |-> weather_data[h].current_pm10,
     pm2_5 |-> weather_data[h].current_pm2_5,
     carbon_monoxide |-> weather_data[h].current_carbon_monoxide,
     nitrogen_dioxide |-> weather_data[h].current_nitrogen_dioxide]

\* faulty variant: the file is read when the send completes
sent_photo_late(h) == plot_file

\* reply_photo(path): the file at the path is opened and read when the call is
\* made, before the coroutine first suspends; that content is what is sent
sent_photo(h) == upload[h]

photo_reply(h) == [kind |-> "photo", file |-> sent_photo(h)]

(***************************************************************************)
(* The time axis of scrape_historic_weather_data: pandas.date_range over   *)
(* the response's Time(), TimeEnd() and Interval().  Times are in seconds: *)
(* to_datetime(unit="s") and Timedelta(seconds=...) scale all three by the *)
(* same factor.                                                            *)
(***************************************************************************)
NoTimes == [Time |-> 0, TimeEnd |-> 0, Interval |-> 1]
NoDate == [bound |-> FALSE, index |-> <<>>]

\* the regular range start, start + freq, ..., up to and including end
generate_range(start, end, freq) ==
    IF end < start THEN <<>>
    ELSE [k \in 1..((end - start) \div freq + 1) |-> start + (k - 1) * freq]

\* faulty variant: inclusive="both" keeps a sample that falls on end
inclusive_both(index, start, end) == index

\* inclusive="left": a last sample equal to end is dropped
inclusive_left(index, start, end) ==
    IF index # <<>> /\ index[Len(index)] = end
    THEN SubSeq(index, 1, Len(index) - 1)
    ELSE index

date_range(start, end, freq) ==
    inclusive_left(generate_range(start, end, freq), start, end)

(***************************************************************************)
(* Initial state                                                           *)
(***************************************************************************)
InitHandlers ==
    /\ pc = [h \in Tasks |-> "idle"]
    /\ text = [h \in Tasks |-> <<>>]
    /\ callback = [h \in Tasks |-> "none"]
    /\ args = [h \in Tasks |-> <<>>]
    /\ city_name = [h \in Tasks |-> <<>>]
    /\ city_data = [h \in Tasks |-> NoData]
    /\ weather_data = [h \in Tasks |-> NoWeather]
    /\ hourly = [h \in Tasks |-> <<>>]
    /\ plot_image_path = [h \in Tasks |-> Unbound]
    /\ cat_image_path = [h \in Tasks |-> Unbound]
    /\ exc = [h \in Tasks |-> ""]
    /\ geo_result = [h \in Tasks |-> ""]
    /\ upload = [h \in Tasks |-> NoFile]
    /\ replies = [h \in Tasks |-> <<>>]
    /\ outcome = [h \in Tasks |-> "none"]
    /\ plot_file = NoFile
    /\ cat_files = [h \in Tasks |-> FALSE]
    /\ running = 0
    /\ attempts = 0
    /\ cache = [k \in CacheKeys |-> NoEntry]
    /\ now = 0
    /\ calls = [h \in Tasks |-> NoCalls]
    /\ fetchLog = [c \in Coords |-> NoLog]

\* no hourly response is being plotted
Init ==
    /\ InitHandlers
    /\ hourly_times = NoTimes
    /\ date = NoDate

(***************************************************************************)
(* The dispatcher: main() registers the handlers, the application creates  *)
(* one task per inbound message                                            *)
(***************************************************************************)
Dispatch(h, m) ==
    /\ pc[h] \in {"idle", "done"}
    /\ route(m) # "none"
    /\ pc' = [pc EXCEPT ![h] = "pending"]
    /\ text' = [text EXCEPT ![h] = m]
    /\ callback' = [callback EXCEPT ![h] = route(m)]
    /\ args' = [args EXCEPT ![h] = context_args(m)]
    /\ city_name' = [city_name EXCEPT ![h] = <<>>]
    /\ city_data' = [city_data EXCEPT ![h] = NoData]
    /\ weather_data' = [weather_data EXCEPT ![h] = NoWeather]
    /\ hourly' = [hourly EXCEPT ![h] = <<>>]
    /\ plot_image_path' = [plot_image_path EXCEPT ![h] = Unbound]
    /\ cat_image_path' = [cat_image_path EXCEPT ![h] = Unbound]
    /\ exc' = [exc EXCEPT ![h] = ""]
    /\ geo_result' = [geo_result EXCEPT ![h] = ""]
    /\ upload' = [upload EXCEPT ![h] = NoFile]
    /\ replies' = [replies EXCEPT ![h] = <<>>]
    /\ outcome' = [outcome EXCEPT ![h] = "none"]
    /\ calls' = [calls EXCEPT ![h] = NoCalls]
    /\ UNCHANGED <<plot_file, cat_files, running, attempts, cache, now, fetchLog>>
    /\ UNCHANGED <<hourly_times, date>>

(***************************************************************************)
(* weather_handler                                                         *)
(***************************************************************************)
\* lines 62-75: derive city_name, reply and return when it is empty, else
\* enter the try block and call geocoding_search_city
BeginWeather(h) ==
    /\ pc[h] = "pending"
    /\ handler(h) = "weather_handler"
    /\ running = 0
    /\ city_name' = [city_name EXCEPT ![h] = current_city_name(args[h], text[h])]
    /\ IF current_city_name(args[h], text[h]) = <<>>
       THEN /\ pc' = [pc EXCEPT ![h] = "val_send"]
            /\ UNCHANGED <<running, calls>>
       ELSE /\ pc' = [pc EXCEPT ![h] = "geo"]
            /\ running' = h
            /\ calls' = [calls EXCEPT ![h].geo = @ + 1]
    /\ UNCHANGED <<callback, args, geo_result, text, city_data, weather_data, hourly, plot_image_path,
                   cat_image_path, exc, upload, replies, outcome, plot_file,
                   cat_files, attempts, cache, now, fetchLog>>
    /\ UNCHANGED <<hourly_times, date>>

(***************************************************************************)
(* weather_weekly_plot_command                                             *)
(***************************************************************************)
\* lines 109-120: with arguments, derive city_name and call
\* geocoding_search_city; without, reply and return
BeginWeekly(h) ==
    /\ pc[h] = "pending"
    /\ handler(h) = "weather_weekly_plot_command"
    /\ running = 0
    /\ IF args[h] # <<>>
       THEN /\ city_name' = [city_name EXCEPT ![h] = weekly_city_name(args[h])]
            /\ pc' = [pc EXCEPT ![h] = "geo"]
            /\ running' = h
            /\ calls' = [calls EXCEPT ![h].geo = @ + 1]
       ELSE /\ pc' = [pc EXCEPT ![h] = "val_send"]
            /\ UNCHANGED <<city_name, running, calls>>
    /\ UNCHANGED <<callback, args, geo_result, text, city_data, weather_data, hourly, plot_image_path,
                   cat_image_path, exc, upload, replies, outcome, plot_file,
                   cat_files, attempts, cache, now, fetchLog>>
    /\ UNCHANGED <<hourly_times, date>>

\* the validation reply has been sent; the handler returns
ValidationSent(h) ==
    /\ pc[h] = "val_send"
    /\ running = 0
    /\ replies' = [replies EXCEPT ![h] =
                     Append(@, IF handler(h) = "weather_handler"
                               THEN ValidationCurrent ELSE ValidationWeekly)]
    /\ pc' = [pc EXCEPT ![h] = "done"]
    /\ outcome' = [outcome EXCEPT ![h] = "returned"]
    /\ UNCHANGED <<callback, args, geo_result, text, city_name, city_data, weather_data, hourly,
                   plot_image_path, cat_image_path, exc, upload, plot_file,
                   cat_files, running, attempts, cache, now, calls, fetchLog>>
    /\ UNCHANGED <<hourly_times, date>>

(***************************************************************************)
(* geocoding_search_city returns or raises in the handler's try block      *)
(***************************************************************************)
\* faulty variant: a failed lookup is sent once more before giving up
GeoResponse_retry(h, resp) ==
    /\ pc[h] = "geo"
    /\ resp \in GeoService(city_name[h])
    /\ geo_result' = [geo_result EXCEPT ![h] = resp.kind]
    /\ LET r == geocoding_search_city(resp) IN
       IF r.raised = ""
       THEN /\ city_data' = [city_data EXCEPT ![h] = r.value]
            /\ pc' = [pc EXCEPT ![h] = "fetch_call"]
            /\ UNCHANGED <<exc, running, calls>>
       ELSE IF calls[h].geo < 2
       THEN /\ calls' = [calls EXCEPT ![h].geo = @ + 1]
            /\ UNCHANGED <<city_data, pc, exc, running>>
       ELSE /\ exc' = [exc EXCEPT ![h] = r.raised]
            /\ pc' = [pc EXCEPT ![h] = "err_send"]
            /\ running' = 0
            /\ UNCHANGED <<city_data, calls>>
    /\ UNCHANGED <<callback, args, text, city_name, weather_data, hourly, plot_image_path,
                   cat_image_path, upload, replies, outcome, plot_file,
                   cat_files, attempts, cache, now, fetchLog, hourly_times, date>>

GeoResponse(h, resp) ==
    /\ pc[h] = "geo"
    /\ resp \in GeoService(city_name[h])
    /\ geo_result' = [geo_result EXCEPT ![h] = resp.kind]
    /\ LET r == geocoding_search_city(resp) IN
       IF r.raised = ""
       THEN /\ city_data' = [city_data EXCEPT ![h] = r.value]
            /\ pc' = [pc EXCEPT ![h] = "fetch_call"]
            /\ UNCHANGED <<exc, running>>
       ELSE /\ exc' = [exc EXCEPT ![h] = r.raised]
            /\ pc' = [pc EXCEPT ![h] = "err_send"]
            /\ running' = 0
            /\ UNCHANGED city_data
    /\ UNCHANGED <<callback, args, text, city_name, weather_data, hourly, plot_image_path,
                   cat_image_path, upload, replies, outcome, plot_file,
                   cat_files, attempts, cache, now, calls, fetchLog>>
    /\ UNCHANGED <<hourly_times, date>>

(***************************************************************************)
(* scrape_weather_data and scrape_historic_weather_data: the request goes  *)
(* through the cached, retrying session                                    *)
(***************************************************************************)
place(h) == [latitude |-> city_data[h].latitude, longitude |-> city_data[h].longitude]

\* history: the call that just returned becomes `last`; `fill` is the latest
\* earlier call that fetched its response from the service
log_call(log, c) ==
    [prev |-> log.last, last |-> c,
     fill |-> IF log.last.valid /\ log.last.fetched THEN log.last ELSE log.fill]

\* the response is in hand: scrape_weather_data builds the reading and the
\* handler awaits reply_text; scrape_historic_weather_data goes on to plot
Deliver(h, body, n) ==
    IF handler(h) = "weather_handler"
    THEN /\ weather_data' = [weather_data EXCEPT ![h] =
                 weather_conditions(city_data[h].latitude, city_data[h].longitude, body)]
         /\ pc' = [pc EXCEPT ![h] = "ok_send"]
         /\ running' = 0
         /\ fetchLog' = [fetchLog EXCEPT ![place(h)] =
                 log_call(@, [valid |-> TRUE, t |-> now, body |-> body, fetched |-> n])]
         /\ UNCHANGED hourly
    ELSE /\ hourly' = [hourly EXCEPT ![h] = body]
         /\ pc' = [pc EXCEPT ![h] = "plot"]
         /\ UNCHANGED <<weather_data, running, fetchLog>>

\* openmeteo.weather_api(url, params): a fresh cached response is returned at
\* once, otherwise the request is sent
CacheLookup(h) ==
    /\ pc[h] = "fetch_call"
    /\ IF is_fresh(cache[cache_key(h)], now)
       THEN /\ Deliver(h, cache[cache_key(h)].body, FALSE)
            /\ calls' = [calls EXCEPT ![h].fetch = @ + 1]
            /\ UNCHANGED attempts
       ELSE /\ pc' = [pc EXCEPT ![h] = "fetch_wait"]
            /\ attempts' = 1
            /\ calls' = [calls EXCEPT ![h].fetch = @ + 1]
            /\ UNCHANGED <<weather_data, hourly, running, fetchLog>>
    /\ UNCHANGED <<callback, args, geo_result, text, city_name, city_data, plot_image_path, cat_image_path,
                   exc, upload, replies, outcome, plot_file, cat_files, cache, now>>
    /\ UNCHANGED <<hourly_times, date>>

\* the service answers: the response is cached and returned
UpstreamOk(h, body) ==
    /\ pc[h] = "fetch_wait"
    /\ body \in ServiceBodies(cache_key(h).kind)
    /\ cache' = [cache EXCEPT ![cache_key(h)] =
                    [present |-> TRUE, created |-> now, body |-> body]]
    /\ Deliver(h, body, TRUE)
    /\ attempts' = 0
    /\ UNCHANGED <<callback, args, geo_result, text, city_name, city_data, plot_image_path, cat_image_path,
                   exc, upload, replies, outcome, plot_file, cat_files, now, calls>>
    /\ UNCHANGED <<hourly_times, date>>

\* faulty variant: the attempt counter starts over instead of giving up
UpstreamFail_restart(h) ==
    /\ pc[h] = "fetch_wait"
    /\ attempts' = IF attempts < retries + 1 THEN attempts + 1 ELSE 1
    /\ UNCHANGED <<callback, args, geo_result, pc, exc, running, text, city_name,
                   city_data, weather_data, hourly, plot_image_path,
                   cat_image_path, upload, replies, outcome, plot_file,
                   cat_files, cache, now, calls, fetchLog>>
    /\ UNCHANGED <<hourly_times, date>>

\* the attempt fails: the session retries until `retries` retries are spent,
\* then the error reaches the handler's except clause
UpstreamFail(h) ==
    /\ pc[h] = "fetch_wait"
    /\ IF attempts < retries + 1
       THEN /\ attempts' = attempts + 1
            /\ UNCHANGED <<pc, exc, running>>
       ELSE /\ attempts' = 0
            /\ exc' = [exc EXCEPT ![h] = "UpstreamError"]
            /\ pc' = [pc EXCEPT ![h] = "err_send"]
            /\ running' = 0
    /\ UNCHANGED <<callback, args, geo_result, text, city_name, city_data, weather_data, hourly,
                   plot_image_path, cat_image_path, upload, replies, outcome,
                   plot_file, cat_files, cache, now, calls, fetchLog>>
    /\ UNCHANGED <<hourly_times, date>>

\* the image scrape_historic_weather_data renders for a task
plot_of(h) ==
    [exists |-> TRUE, owner |-> h, latitude |-> city_data[h].latitude,
     longitude |-> city_data[h].longitude, values |-> hourly[h]]

\* lines 77-109 of open_meteo.py and 121-125 of bot.py: the plot is drawn and
\* saved to the fixed path; on return the handler binds plot_image_path and
\* awaits reply_photo.  Drawing may fail before savefig writes the file, or
\* savefig/close may fail once the file is there.
Render(h, o) ==
    /\ pc[h] = "plot"
    /\ o \in {"ok", "fail_before_write", "fail_after_write"}
    /\ plot_file' = IF o = "fail_before_write" THEN plot_file ELSE plot_of(h)
    /\ IF o = "ok"
       THEN /\ plot_image_path' = [plot_image_path EXCEPT ![h] = PlotPath]
            /\ upload' = [upload EXCEPT ![h] = plot_file']
            /\ pc' = [pc EXCEPT ![h] = "photo_send"]
            /\ UNCHANGED exc
       ELSE /\ exc' = [exc EXCEPT ![h] = "ArtifactError"]
            /\ pc' = [pc EXCEPT ![h] = "err_send"]
            /\ UNCHANGED <<plot_image_path, upload>>
    /\ running' = 0
    /\ UNCHANGED <<callback, args, geo_result, text, city_name, city_data, weather_data, hourly,
                   cat_image_path, replies, outcome, cat_files, attempts,
                   cache, now, calls, fetchLog>>
    /\ UNCHANGED <<hourly_times, date>>

(***************************************************************************)
(* Replies and the finally clauses                                         *)
(***************************************************************************)
\* the finally clause of weather_weekly_plot_command and of cat_command reads
\* the path variable: it raises UnboundLocalError when the variable was never
\* assigned
finally_raises(h) ==
    CASE handler(h) = "weather_weekly_plot_command" -> plot_image_path[h] = Unbound
      [] handler(h) = "cat_command" -> cat_image_path[h] = Unbound
      [] OTHER -> FALSE

\* faulty variant: the finally clause removes the file at the fixed path
\* whether or not this request wrote it
plot_file_after_finally_any(h) ==
    IF handler(h) = "weather_weekly_plot_command" THEN NoFile ELSE plot_file

\* if os.path.exists(plot_image_path): os.remove(plot_image_path)
plot_file_after_finally(h) ==
    IF handler(h) = "weather_weekly_plot_command" /\ plot_image_path[h] # Unbound
    THEN NoFile
    ELSE plot_file

\* if os.path.exists(cat_image_path): os.remove(cat_image_path)
cat_files_after_finally(h) ==
    IF handler(h) = "cat_command" /\ cat_image_path[h] # Unbound
    THEN [cat_files EXCEPT ![h] = FALSE]
    ELSE cat_files

\* the handler's end: its finally clause, when it has one, then return or
\* raise; the handler's locals go with its frame
Finish(h) ==
    /\ pc' = [pc EXCEPT ![h] = "done"]
    /\ outcome' = [outcome EXCEPT ![h] = IF finally_raises(h) THEN "raised" ELSE "returned"]
    /\ plot_file' = plot_file_after_finally(h)
    /\ cat_files' = cat_files_after_finally(h)
    /\ city_data' = [city_data EXCEPT ![h] = NoData]
    /\ weather_data' = [weather_data EXCEPT ![h] = NoWeather]
    /\ hourly' = [hourly EXCEPT ![h] = <<>>]
    /\ plot_image_path' = [plot_image_path EXCEPT ![h] = Unbound]
    /\ cat_image_path' = [cat_image_path EXCEPT ![h] = Unbound]
    /\ geo_result' = [geo_result EXCEPT ![h] = ""]
    /\ upload' = [upload EXCEPT ![h] = NoFile]

\* faulty variant: the caught exception's text is sent to the user
error_reply_leaky(h) == [kind |-> "text", body |-> exc[h]]

error_reply(h) ==
    CASE handler(h) = "weather_handler" -> ErrorCurrent
      [] handler(h) = "weather_weekly_plot_command" -> ErrorWeekly
      [] OTHER -> CatSorry

\* weather_handler lines 82-92: the structured reply has been sent
StructuredSent(h) ==
    /\ pc[h] = "ok_send"
    /\ running = 0
    /\ replies' = [replies EXCEPT ![h] = Append(@, structured_reply(h))]
    /\ Finish(h)
    /\ UNCHANGED <<callback, args, text, city_name, exc, running, attempts, cache, now, calls, fetchLog>>
    /\ UNCHANGED <<hourly_times, date>>

\* the except clause's reply has been sent; the finally clause runs
ErrorSent(h) ==
    /\ pc[h] = "err_send"
    /\ running = 0
    /\ replies' = [replies EXCEPT ![h] = Append(@, error_reply(h))]
    /\ Finish(h)
    /\ UNCHANGED <<callback, args, text, city_name, exc, running, attempts, cache, now, calls, fetchLog>>
    /\ UNCHANGED <<hourly_times, date>>

\* reply_photo has delivered the photo; the finally clause runs
PhotoSent(h) ==
    /\ pc[h] = "photo_send"
    /\ running = 0
    /\ replies' = [replies EXCEPT ![h] = Append(@, photo_reply(h))]
    /\ Finish(h)
    /\ UNCHANGED <<callback, args, text, city_name, exc, running, attempts, cache, now, calls, fetchLog>>
    /\ UNCHANGED <<hourly_times, date>>

\* reply_photo raises: the except clause awaits its reply_text
PhotoFailed(h) ==
    /\ pc[h] = "photo_send"
    /\ running = 0
    /\ exc' = [exc EXCEPT ![h] = "SendError"]
    /\ pc' = [pc EXCEPT ![h] = "err_send"]
    /\ UNCHANGED <<callback, args, geo_result, text, city_name, city_data, weather_data, hourly,
                   plot_image_path, cat_image_path, upload, replies, outcome,
                   plot_file, cat_files, running, attempts, cache, now, calls,
                   fetchLog>>
    /\ UNCHANGED <<hourly_times, date>>

(***************************************************************************)
(* cat_command                                                             *)
(***************************************************************************)
\* line 190: the notice is awaited first
BeginCat(h) ==
    /\ pc[h] = "pending"
    /\ handler(h) = "cat_command"
    /\ running = 0
    /\ pc' = [pc EXCEPT ![h] = "notice_send"]
    /\ UNCHANGED <<callback, args, geo_result, text, city_name, city_data, weather_data, hourly,
                   plot_image_path, cat_image_path, exc, upload, replies,
                   outcome, plot_file, cat_files, running, attempts, cache,
                   now, calls, fetchLog>>
    /\ UNCHANGED <<hourly_times, date>>

\* the notice has been sent; the try block calls cat.getCat
NoticeSent(h) ==
    /\ pc[h] = "notice_send"
    /\ running = 0
    /\ replies' = [replies EXCEPT ![h] = Append(@, CatNotice)]
    /\ pc' = [pc EXCEPT ![h] = "cat_wait"]
    /\ running' = h
    /\ calls' = [calls EXCEPT ![h].image = @ + 1]
    /\ UNCHANGED <<callback, args, geo_result, text, city_name, city_data, weather_data, hourly,
                   plot_image_path, cat_image_path, exc, upload, outcome,
                   plot_file, cat_files, attempts, cache, now, fetchLog>>
    /\ UNCHANGED <<hourly_times, date>>

\* cat.getCat returns the path of the image it saved, or raises
CatResponse(h, ok) ==
    /\ pc[h] = "cat_wait"
    /\ ok \in BOOLEAN
    /\ IF ok
       THEN /\ cat_files' = [cat_files EXCEPT ![h] = TRUE]
            /\ cat_image_path' = [cat_image_path EXCEPT ![h] = CatPath]
            /\ upload' = [upload EXCEPT ![h] = [NoFile EXCEPT !.exists = TRUE, !.owner = h]]
            /\ pc' = [pc EXCEPT ![h] = "photo_send"]
            /\ UNCHANGED exc
       ELSE /\ exc' = [exc EXCEPT ![h] = "UpstreamError"]
            /\ pc' = [pc EXCEPT ![h] = "err_send"]
            /\ UNCHANGED <<cat_files, cat_image_path, upload>>
    /\ running' = 0
    /\ UNCHANGED <<callback, args, geo_result, text, city_name, city_data, weather_data, hourly,
                   plot_image_path, replies, outcome, plot_file, attempts,
                   cache, now, calls, fetchLog>>
    /\ UNCHANGED <<hourly_times, date>>

(***************************************************************************)
(* Time                                                                    *)
(***************************************************************************)
\* half a freshness window passes while no handler holds the loop
Tick ==
    /\ running = 0
    /\ now < MaxClock * (expire_after \div 2)
    /\ now' = now + expire_after \div 2
    /\ UNCHANGED <<callback, args, geo_result, pc, text, city_name, city_data, weather_data, hourly,
                   plot_image_path, cat_image_path, exc, upload, replies,
                   outcome, plot_file, cat_files, running, attempts, cache,
                   calls, fetchLog>>
    /\ UNCHANGED <<hourly_times, date>>

(***************************************************************************)
(* Specifications                                                          *)
(***************************************************************************)
\* every handler, every message
Next ==
    \/ \E h \in Tasks, m \in Messages : Dispatch(h, m)
    \/ \E h \in Tasks : BeginWeather(h)
    \/ \E h \in Tasks : BeginWeekly(h)
    \/ \E h \in Tasks : BeginCat(h)
    \/ \E h \in Tasks : ValidationSent(h)
    \/ \E h \in Tasks : \E resp \in GeoService(city_name[h]) : GeoResponse(h, resp)
    \/ \E h \in Tasks : CacheLookup(h)
    \/ \E h \in Tasks, body \in Bodies \cup Series : UpstreamOk(h, body)
    \/ \E h \in Tasks : UpstreamFail(h)
    \/ \E h \in Tasks, o \in {"ok", "fail_before_write", "fail_after_write"} : Render(h, o)
    \/ \E h \in Tasks : StructuredSent(h)
    \/ \E h \in Tasks : ErrorSent(h)
    \/ \E h \in Tasks : PhotoSent(h)
    \/ \E h \in Tasks : PhotoFailed(h)
    \/ \E h \in Tasks : NoticeSent(h)
    \/ \E h \in Tasks, ok \in BOOLEAN : CatResponse(h, ok)
    \/ Tick

Spec == Init /\ [][Next]_vars

\* the messages routed to weather_handler
NextCurrent ==
    \/ \E h \in Tasks, m \in CurrentMessages : Dispatch(h, m)
    \/ \E h \in Tasks : BeginWeather(h)
    \/ \E h \in Tasks : ValidationSent(h)
    \/ \E h \in Tasks : \E resp \in GeoService(city_name[h]) : GeoResponse(h, resp)
    \/ \E h \in Tasks : CacheLookup(h)
    \/ \E h \in Tasks, body \in Bodies : UpstreamOk(h, body)
    \/ \E h \in Tasks : UpstreamFail(h)
    \/ \E h \in Tasks : StructuredSent(h)
    \/ \E h \in Tasks : ErrorSent(h)

SpecCurrent == Init /\ [][NextCurrent]_vars

\* the /weekly messages
NextWeekly ==
    \/ \E h \in Tasks, m \in WeeklyMessages : Dispatch(h, m)
    \/ \E h \in Tasks : BeginWeekly(h)
    \/ \E h \in Tasks : ValidationSent(h)
    \/ \E h \in Tasks : \E resp \in GeoService(city_name[h]) : GeoResponse(h, resp)
    \/ \E h \in Tasks : CacheLookup(h)
    \/ \E h \in Tasks, body \in Series : UpstreamOk(h, body)
    \/ \E h \in Tasks : UpstreamFail(h)
    \/ \E h \in Tasks, o \in {"ok", "fail_before_write", "fail_after_write"} : Render(h, o)
    \/ \E h \in Tasks : ErrorSent(h)
    \/ \E h \in Tasks : PhotoSent(h)
    \/ \E h \in Tasks : PhotoFailed(h)

SpecWeekly == Init /\ [][NextWeekly]_vars

\* /current queries for the known places, one after the other, with time
\* passing between them
NextFetch ==
    \/ \E m \in {S_current \o SP \o S_Oslo, S_Rome} : Dispatch(1, m)
    \/ \E h \in Tasks : BeginWeather(h)
    \/ \E h \in Tasks : \E resp \in GeoService(city_name[h]) : GeoResponse(h, resp)
    \/ \E h \in Tasks : CacheLookup(h)
    \/ \E h \in Tasks, body \in Bodies : UpstreamOk(h, body)
    \/ \E h \in Tasks : UpstreamFail(h)
    \/ \E h \in Tasks : StructuredSent(h)
    \/ \E h \in Tasks : ErrorSent(h)
    \/ Tick

SpecFetch == Init /\ [][NextFetch]_vars

\* /cat only, plain or addressed to the bot
CatCommandForms == CatMessages \cup {S_cat \o S_atbot}

NextCat ==
    \/ \E h \in Tasks, m \in CatCommandForms : Dispatch(h, m)
    \/ \E h \in Tasks : BeginCat(h)
    \/ \E h \in Tasks : NoticeSent(h)
    \/ \E h \in Tasks, ok \in BOOLEAN : CatResponse(h, ok)
    \/ \E h \in Tasks : PhotoSent(h)
    \/ \E h \in Tasks : PhotoFailed(h)
    \/ \E h \in Tasks : ErrorSent(h)

SpecCat == Init /\ [][NextCat]_vars

\* scrape_historic_weather_data's time axis on its own: the response's
\* start, end and interval are drawn from a bounded set, the axis is built
\* once
past_days == 7
MaxSpanDays == 12

HourlyResponses ==
    { [Time |-> s, TimeEnd |-> s + span + slack, Interval |-> i] :
        s \in {0, 1761955200, 1761957000},
        span \in {d * 24 * 3600 : d \in 0..MaxSpanDays} \cup {0 - 3600, 3600, 7200},
        slack \in {0, 1, 1799},
        i \in {1800, 3600, 10800} }

InitAxis ==
    /\ InitHandlers
    /\ hourly_times \in HourlyResponses
    /\ date = NoDate

\* lines 77-83: weather_hourly["date"] = pandas.date_range(start, end, freq,
\* inclusive="left")
BuildAxis ==
    /\ ~date.bound
    /\ date' = [bound |-> TRUE,
                index |-> date_range(hourly_times.Time, hourly_times.TimeEnd,
                                     hourly_times.Interval)]
    /\ UNCHANGED <<pc, text, callback, args, city_name, city_data, weather_data,
                   hourly, plot_image_path, cat_image_path, exc, geo_result,
                   upload, replies, outcome, plot_file, cat_files, running,
                   attempts, cache, now, calls, fetchLog, hourly_times>>

NextAxis == BuildAxis

SpecAxis == InitAxis /\ [][NextAxis]_vars

\* a few queries of both kinds; every HTTP attempt of the retrying session
\* is answered or fails in the end
QueryMessages ==
    { S_current, S_current \o SP \o S_Oslo, S_weekly, S_weekly \o SP \o S_Rome,
      S_weekly \o SP \o S_Ys }

NextQuery ==
    \/ \E h \in Tasks, m \in QueryMessages : Dispatch(h, m)
    \/ \E h \in Tasks : BeginWeather(h)
    \/ \E h \in Tasks : BeginWeekly(h)
    \/ \E h \in Tasks : ValidationSent(h)
    \/ \E h \in Tasks : \E resp \in GeoService(city_name[h]) : GeoResponse(h, resp)
    \/ \E h \in Tasks : CacheLookup(h)
    \/ \E h \in Tasks, body \in Bodies \cup Series : UpstreamOk(h, body)
    \/ \E h \in Tasks : UpstreamFail(h)
    \/ \E h \in Tasks, o \in {"ok", "fail_before_write", "fail_after_write"} : Render(h, o)
    \/ \E h \in Tasks : StructuredSent(h)
    \/ \E h \in Tasks : ErrorSent(h)
    \/ \E h \in Tasks : PhotoSent(h)
    \/ \E h \in Tasks : PhotoFailed(h)

AttemptAnswered(h) == UpstreamFail(h) \/ \E body \in Bodies \cup Series : UpstreamOk(h, body)

SpecQuery ==
    Init /\ [][NextQuery]_vars /\ \A h \in Tasks : WF_vars(AttemptAnswered(h))

(***************************************************************************)
(* Claims                                                                  *)
(***************************************************************************)
\* the city argument of a message: what follows the command word of a
\* command, the whole body of a plain-text message, without outer whitespace
city_argument(t) ==
    IF is_command(t) THEN strip(SubSeq(t, first_space(t, 1), Len(t))) ELSE strip(t)

IsWeekly(h) == pc[h] # "idle" /\ handler(h) = "weather_weekly_plot_command"
IsCurrent(h) == pc[h] # "idle" /\ handler(h) = "weather_handler"

DownstreamErrors == {"TypeError", "IndexError", "TransportError", "UpstreamError", "ArtifactError"}

\* C1: once a /weekly handler that was given a city has ended, on whatever
\* path, the file historic_weather_plot.png does not exist.
C1_ArtifactRemovedAtEnd ==
    \A h \in Tasks :
        (IsWeekly(h) /\ pc[h] = "done" /\ city_argument(text[h]) # <<>>)
            => ~plot_file.exists

\* C2: a handler whose downstream call failed has sent its generic error
\* reply and ended normally: no exception leaves the handler.
C2_FailuresCaughtInHandler ==
    \A h \in Tasks :
        (pc[h] = "done" /\ exc[h] \in DownstreamErrors)
            => /\ outcome[h] = "returned"
               /\ replies[h] # <<>>
               /\ replies[h][Len(replies[h])] = error_reply(h)

\* the place the geocoding service knows under a name
place_of(city) == IF city = S_Oslo THEN Oslo ELSE Rome

OwnPlot(h, f) ==
    /\ f.exists
    /\ f.owner = h
    /\ f.latitude = place_of(city_name[h]).latitude
    /\ f.longitude = place_of(city_name[h]).longitude

\* C3: with several /weekly requests in flight, the photo a request sends and
\* the photo reply it has delivered carry the plot of its own city.
C3_NoCrossContamination ==
    \A h \in Tasks :
        IsWeekly(h) =>
            /\ pc[h] = "photo_send" => OwnPlot(h, sent_photo(h))
            /\ \A i \in 1..Len(replies[h]) :
                   replies[h][i].kind = "photo" => OwnPlot(h, replies[h][i].file)

\* C3 witness: two /weekly requests for different cities are sending their
\* photos at the same time
C3_Witness ==
    \E h, g \in Tasks :
        /\ h # g
        /\ IsWeekly(h) /\ IsWeekly(g)
        /\ pc[h] = "photo_send" /\ pc[g] = "photo_send"
        /\ city_name[h] # city_name[g]

\* C4: while a request's photo is being sent, the plot file it wrote is not
\* overwritten or deleted by another request.
C4_ArtifactOwnedUntilSent ==
    [][\A h \in Tasks :
          (/\ IsWeekly(h)
           /\ pc[h] = "photo_send" /\ pc'[h] = "photo_send"
           /\ plot_file.exists /\ plot_file.owner = h)
              => plot_file' = plot_file]_vars

\* C5: while a handler waits for a downstream response, the handler of
\* another pending message can start.
C5_NetworkCallsYield ==
    \A h, g \in Tasks :
        (h # g /\ pc[h] \in {"geo", "fetch_wait", "cat_wait"} /\ pc[g] = "pending")
            => ENABLED (BeginWeather(g) \/ BeginWeekly(g) \/ BeginCat(g))

\* C7: a /weekly message without a city gets the validation reply and nothing
\* else: no geocoding or air-quality request, no plot, a normal return.
C7_WeeklyMissingCity ==
    \A h \in Tasks :
        (IsWeekly(h) /\ city_argument(text[h]) = <<>>)
            => /\ pc[h] \in {"pending", "val_send", "done"}
               /\ calls[h] = NoCalls
               /\ plot_image_path[h] = Unbound /\ upload[h] = NoFile
               /\ pc[h] = "done" =>
                      (replies[h] = <<ValidationWeekly>> /\ outcome[h] = "returned")
               /\ pc[h] # "done" => replies[h] = <<>>

\* C7 witness: a /weekly without a city has been handled
C7_Witness ==
    \E h \in Tasks :
        IsWeekly(h) /\ city_argument(text[h]) = <<>> /\ pc[h] = "done"

\* C6: a message routed to weather_handler whose city argument is missing or
\* blank gets the validation reply, and no geocoding or air-quality request
\* is made for it.
C6_BlankCityNoCalls ==
    \A h \in Tasks :
        (IsCurrent(h) /\ city_argument(text[h]) = <<>>)
            => /\ calls[h].geo = 0 /\ calls[h].fetch = 0
               /\ pc[h] = "done" => replies[h] = <<ValidationCurrent>>

\* C8: when the geocoding or the air-quality call of a current-conditions
\* query fails, whatever the error, the user receives the fixed generic text
\* and nothing else.
C8_GenericErrorOnly ==
    \A h \in Tasks :
        (IsCurrent(h) /\ exc[h] # "")
            => /\ pc[h] \in {"err_send", "done"}
               /\ pc[h] = "err_send" => replies[h] = <<>>
               /\ pc[h] = "done" => replies[h] = <<ErrorCurrent>>

\* C8 witness: a current-conditions query has ended after a downstream failure
C8_Witness ==
    \E h \in Tasks :
        IsCurrent(h) /\ pc[h] = "done" /\ exc[h] \in DownstreamErrors
            /\ city_argument(text[h]) # <<>>

\* C9: when the geocoding service has no result for the name, the lookup
\* fails with NotFoundError.
C9_ZeroResultsNotFound ==
    \A h \in Tasks :
        geo_result[h] \in {"no_key", "empty_list"} => exc[h] = "NotFoundError"

\* C10: a scrape_weather_data call made less than expire_after seconds after
\* the previous successful call for the same coordinates sends no request to
\* the service and returns the same reading.
C10_SecondCallCached ==
    \A c \in Coords :
        LET L == fetchLog[c] IN
        (L.prev.valid /\ L.last.valid /\ L.last.t - L.prev.t < expire_after)
            => (~L.last.fetched /\ L.last.body = L.prev.body)

\* C10 amended: a scrape_weather_data call made less than expire_after seconds
\* after an earlier call for the same coordinates that fetched its response
\* from the service sends no request and returns that call's reading.
C10_CachedWithinWindowOfFetch ==
    \A c \in Coords :
        LET L == fetchLog[c] IN
        (L.fill.valid /\ L.last.valid /\ L.last.t - L.fill.t < expire_after)
            => (~L.last.fetched /\ L.last.body = L.fill.body)

\* C10 witness: a call was served from the cache some time after the call
\* that filled it, with a request for the other place made in between
C10_Witness ==
    \E c, d \in Coords :
        LET L == fetchLog[c] IN
        /\ c # d
        /\ L.fill.valid /\ L.last.valid /\ ~L.last.fetched
        /\ L.fill.t < L.last.t /\ L.last.t - L.fill.t < expire_after
        /\ fetchLog[d].last.valid
        /\ L.fill.t <= fetchLog[d].last.t /\ fetchLog[d].last.t <= L.last.t

C12_HalfOpenAxis ==
    date.bound =>
        LET start == hourly_times.Time
            end == hourly_times.TimeEnd
            freq == hourly_times.Interval
            d == date.index
        IN /\ \A k \in 1..Len(d) : d[k] = start + (k - 1) * freq /\ d[k] < end
           /\ start + Len(d) * freq >= end
           /\ (end - start = past_days * 24 * 3600 /\ freq = 3600) =>
                 /\ Len(d) = 168
                 /\ d[1] = start
                 /\ d[168] = start + 167 * 3600

\* C12 witness: the axis of a seven-day hourly response has been built
C12_Witness ==
    /\ date.bound
    /\ hourly_times.Time = 1761955200
    /\ hourly_times.TimeEnd - hourly_times.Time = past_days * 24 * 3600
    /\ hourly_times.Interval = 3600
    /\ Len(date.index) = 168

\* the field of a reading that carries the named pollutant
reading_field(r, name) ==
    CASE name = "pm10" -> r.current_pm10
      [] name = "pm2_5" -> r.current_pm2_5
      [] name = "carbon_monoxide" -> r.current_carbon_monoxide
      [] name = "nitrogen_dioxide" -> r.current_nitrogen_dioxide

\* C13: the reading scrape_weather_data returns carries, for each requested
\* variable, the value of the response slot at the variable's position in the
\* request: slots (a, b, c, d) give pm10 = a, pm2_5 = b, carbon_monoxide = c,
\* nitrogen_dioxide = d.
C13_PositionalBinding ==
    \A h \in Tasks :
        pc[h] = "ok_send" =>
            LET body == fetchLog[place(h)].last.body
            IN /\ fetchLog[place(h)].last.valid
               /\ \A k \in 1..Len(current_variables) :
                     reading_field(weather_data[h], current_variables[k]) = body[k]

\* C13 witness: the response (5, 3, 200, 12) was bound to a reading
C13_Witness ==
    \E h \in Tasks :
        /\ pc[h] = "ok_send"
        /\ fetchLog[place(h)].last.body = <<5, 3, 200, 12>>
        /\ weather_data[h].current_pm10 = 5
        /\ weather_data[h].current_pm2_5 = 3
        /\ weather_data[h].current_carbon_monoxide = 200
        /\ weather_data[h].current_nitrogen_dioxide = 12

\* the sequence sub occurs in t
occurs_in(sub, t) ==
    \E i \in 1..(Len(t) - Len(sub) + 1) : SubSeq(t, i, i + Len(sub) - 1) = sub

\* the response the air-quality service gave for current conditions at a place
current_body(p) ==
    cache[[latitude |-> p.latitude, longitude |-> p.longitude, kind |-> "current"]].body

\* C14: a current-conditions query whose geocoding and air-quality calls both
\* succeeded is answered by one reply that carries the city name the user
\* gave, the coordinates the geocoding service returned for it and the four
\* values the air-quality service returned for those coordinates.
C14_SuccessReplyContent ==
    \A h \in Tasks :
        (IsCurrent(h) /\ pc[h] = "done" /\ exc[h] = "" /\ calls[h].fetch = 1)
            => /\ Len(replies[h]) = 1
               /\ LET r == replies[h][1]
                      p == place_of(city_name[h])
                      body == current_body(p)
                  IN /\ r.kind = "structured"
                     /\ r.city # <<>>
                     /\ occurs_in(r.city, text[h])
                     /\ is_command(text[h]) => r.city = city_argument(text[h])
                     /\ r.latitude = p.latitude
                     /\ r.longitude = p.longitude
                     /\ r.pm10 = body[1]
                     /\ r.pm2_5 = body[2]
                     /\ r.carbon_monoxide = body[3]
                     /\ r.nitrogen_dioxide = body[4]

\* C14 witness: "/current Oslo" was answered with Oslo's coordinates and values
C14_Witness ==
    \E h \in Tasks :
        /\ pc[h] = "done"
        /\ text[h] = S_current \o SP \o S_Oslo
        /\ calls[h].geo = 1
        /\ calls[h].fetch = 1
        /\ exc[h] = ""
        /\ replies[h] # <<>>
        /\ replies[h][1].kind = "structured"
        /\ replies[h][1].city = S_Oslo
        /\ replies[h][1].latitude = 60

GeocoderErrors == {"TypeError", "IndexError", "TransportError"}

\* C15: in weather_handler and weather_weekly_plot_command the air-quality
\* call is made only after geocoding_search_city returned a place, and with
\* that place's coordinates; when geocoding_search_city fails no air-quality
\* request is made.
C15_FetchAfterGeocode ==
    \A h \in Tasks :
        /\ calls[h].fetch <= calls[h].geo
        /\ pc[h] \in {"fetch_call", "fetch_wait", "plot", "ok_send", "photo_send"}
              => /\ geo_result[h] = "results"
                 /\ city_data[h].found
                 /\ place(h) = place_of(city_name[h])
                 /\ cache_key(h).latitude = place_of(city_name[h]).latitude
                 /\ cache_key(h).longitude = place_of(city_name[h]).longitude
        /\ (geo_result[h] \notin {"", "results"} \/ exc[h] \in GeocoderErrors)
              => /\ calls[h].fetch = 0
                 /\ pc[h] \in {"err_send", "done"}

\* C15 witness: one query is waiting for the air-quality service with the
\* coordinates geocoding returned, another ended on a geocoding failure
\* without any air-quality request
C15_Witness ==
    \E h, g \in Tasks :
        /\ pc[h] = "fetch_wait"
        /\ geo_result[h] = "results"
        /\ place(h) = Rome
        /\ pc[g] = "done"
        /\ exc[g] = "IndexError"
        /\ calls[g].geo = 1
        /\ calls[g].fetch = 0

\* C16: for a plain-text message handled by weather_handler, the city name
\* geocoding_search_city is called with is the whole message text without
\* its leading and trailing whitespace.
C16_PlainTextWholeBody ==
    \A h \in Tasks :
        (IsCurrent(h) /\ ~is_command(text[h]) /\ calls[h].geo > 0)
            => city_name[h] = strip(text[h])

IsCat(h) == pc[h] # "idle" /\ handler(h) = "cat_command"

\* C17: for a /cat message the notice is sent before cat.getCat is called;
\* then exactly one of the photo and the apology follows; and on every path,
\* a failure of cat.getCat included, the finally clause completes and no
\* image file of the request remains.
C17_CatReplyAndCleanup ==
    \A h \in Tasks :
        IsCat(h) =>
            /\ calls[h].image > 0 => (replies[h] # <<>> /\ replies[h][1] = CatNotice)
            /\ pc[h] = "done" =>
                  /\ Len(replies[h]) = 2
                  /\ replies[h][2].kind = "photo" \/ replies[h][2] = CatSorry
                  /\ replies[h][2].kind = "photo" <=> exc[h] = ""
                  /\ outcome[h] = "returned"
                  /\ ~cat_files[h]

\* C18: a /current or /weekly message with a non-blank city causes exactly
\* one geocoding request, whether the request succeeds or fails and whatever
\* the cache of the air-quality session holds; a message without a city
\* causes none.
C18_OneGeocodingRequest ==
    \A h \in Tasks :
        (IsCurrent(h) \/ IsWeekly(h)) =>
            /\ calls[h].geo <= 1
            /\ (pc[h] # "pending" /\ city_name[h] # <<>>) => calls[h].geo = 1
            /\ pc[h] \in {"geo", "fetch_call", "fetch_wait", "plot", "ok_send",
                          "photo_send", "err_send"} => calls[h].geo = 1
            /\ (pc[h] = "done" /\ replies[h] \notin {<<ValidationCurrent>>, <<ValidationWeekly>>})
                  => calls[h].geo = 1

\* C18 witness: with a response in the cache, one query ended after its
\* single geocoding request failed and another after its single request
\* succeeded
C18_Witness ==
    \E h, g \in Tasks :
        /\ \E k \in CacheKeys : cache[k].present
        /\ pc[h] = "done" /\ exc[h] = "TransportError" /\ calls[h].geo = 1
        /\ pc[g] = "done" /\ exc[g] = "" /\ calls[g].fetch = 1 /\ calls[g].geo = 1

\* C19: a /weekly request that fails before its plot is written, because
\* geocoding or the air-quality request failed, never touches
\* historic_weather_plot.png: neither its calls nor its except and finally
\* clauses create, overwrite or delete the file, so the plot of another
\* request in flight stays.
C19_EarlyFailureLeavesArtifact ==
    [][\A h \in Tasks :
          (/\ IsWeekly(h)
           /\ \/ pc[h] \in {"geo", "fetch_call", "fetch_wait"}
              \/ /\ pc[h] = "err_send" /\ pc'[h] = "done"
                 /\ exc[h] \in GeocoderErrors \cup {"UpstreamError"})
              => plot_file' = plot_file]_vars

\* C19 witness: a request whose air-quality call failed is about to run its
\* except and finally clauses while another request's plot is at the path
\* and that request's photo is still being sent
C19_Witness ==
    \E h, g \in Tasks :
        /\ h # g
        /\ IsWeekly(h) /\ IsWeekly(g)
        /\ pc[h] = "err_send"
        /\ exc[h] \in GeocoderErrors \cup {"UpstreamError"}
        /\ pc[g] = "photo_send"
        /\ plot_file.exists
        /\ plot_file.owner = g

====
